---- MODULE Spec2Model ----
(***************************************************************************)
(* A model of the .NET binary-format decoder of src/index.js: the bit      *)
(* reader (bitReader), the record parser (deserialize) and the projection  *)
(* (mapMembers).  One deserialize call is one behaviour: Init chooses the   *)
(* input string, BitReader constructs the reader, and every further step   *)
(* is one iteration of deserialize's while (true) loop.                    *)
(***************************************************************************)
EXTENDS Integers, Sequences, FiniteSets, TLC

VARIABLES bytes, bit, pc, error, header, libraries, objects, references,
          objectStack, heap, result

vars == <<bytes, bit, pc, error, header, libraries, objects, references,
          objectStack, heap, result>>

(***************************************************************************)
(* Bounds of the model.                                                    *)
(***************************************************************************)
\* number of chunks (a record, with the inline values of its members) that
\* follow the header record in an input
MaxChunks == 3
\* a truncated input has lost up to this many of its last bytes
MaxCut == 2
\* the loop is followed while the cursor is at most this many bits past the
\* end of the input
MaxOverrun == 300
\* counts read from the stream (members, string length, array length, rank)
\* are followed up to this value
MaxCount == 9
\* string lengths read from the stream are followed from -MaxLength up to
\* MaxLength
MaxLength == 300

(***************************************************************************)
(* Values.  Every JavaScript value the decoder handles is a record         *)
(* [k, n, s]: k the kind, n a number, s a sequence.                        *)
(***************************************************************************)
Val(k, n, s) == [k |-> k, n |-> n, s |-> s]
Undefined == Val("undefined", 0, <<>>)
Null == Val("null", 0, <<>>)
Bool(b) == Val("boolean", IF b THEN 1 ELSE 0, <<>>)
Num(n) == Val("number", n, <<>>)
\* a string is the sequence of its char codes
Str(chars) == Val("string", 0, chars)
\* a JavaScript array of values (ArraySinglePrimitive)
Arr(items) == Val("array", 0, items)
\* the placeholder {ref: id}
RefPlaceholder(id) == Val("ref", id, <<>>)
\* a pointer to the composite at heap[a]
Obj(a) == Val("object", a, <<>>)
\* {className, libraryId}
ClassInfo(className, libraryId) == Val("classInfo", libraryId, className)
\* a number made by reinterpreting 32-bit words as an IEEE-754 value
Float(words) == Val("float", 0, words)

(***************************************************************************)
(* Arithmetic of JavaScript's 32-bit operators.                            *)
(***************************************************************************)
RECURSIVE Pow2(_)
Pow2(n) == IF n = 0 THEN 1 ELSE 2 * Pow2(n - 1)

Min(a, b) == IF a < b THEN a ELSE b
Max(a, b) == IF a > b THEN a ELSE b

\* Math.floor(a / 8), Math.ceil(a / 8), and truncation toward zero
Floor8(a) == a \div 8
Ceil8(a) == -((-a) \div 8)
Trunc8(a) == IF a >= 0 THEN a \div 8 ELSE -((-a) \div 8)

\* x >> s for an int32 x and a shift count 0..31
Sar(x, s) == IF s >= 31 THEN (IF x < 0 THEN -1 ELSE 0) ELSE x \div Pow2(s)

\* the shift count of result >>= (bit % 8): JavaScript's % keeps the sign of
\* bit and >> uses the low five bits of the count
ShiftCount(b) ==
  IF b >= 0 THEN b % 8
  ELSE LET r == (-b) % 8 IN IF r = 0 THEN 0 ELSE 32 - r

\* result & mask, mask = Math.pow(2, bits) - 1 taken ToInt32: low bits ones
\* below 32 bits, -1 from 32 to 53 bits, and 0 from 54 bits on, where the
\* double 2^bits - 1 rounds to 2^bits
AndMask(x, bits) ==
  IF bits <= 30 THEN x % Pow2(bits)
  ELSE IF bits = 31 THEN (IF x >= 0 THEN x ELSE (x + 2147483647) + 1)
  ELSE IF bits <= 53 THEN x
  ELSE 0

(***************************************************************************)
(* bitReader: slice, reduce, read, readByteArray.                          *)
(***************************************************************************)
\* Array.prototype.slice(start, end) on a sequence (0-based, negative
\* positions count from the end)
Slice(arr, start, end) ==
  LET len == Len(arr)
      k == IF start < 0 THEN Max(len + start, 0) ELSE Min(start, len)
      f == IF end < 0 THEN Max(len + end, 0) ELSE Min(end, len)
  IN IF f <= k THEN <<>> ELSE SubSeq(arr, k + 1, f)

\* the sum of the bytes at positions k with k % 4 = 3 (they are shifted by 24)
RECURSIVE HighSum(_, _)
HighSum(b, k) ==
  IF k > Len(b) THEN 0
  ELSE (IF (k - 1) % 4 = 3 THEN b[k] ELSE 0) + HighSum(b, k + 1)

\* the sum of the other bytes, shifted by 0, 8 or 16
RECURSIVE LowSum(_, _)
LowSum(b, k) ==
  IF k > Len(b) THEN 0
  ELSE (IF (k - 1) % 4 = 3 THEN 0 ELSE b[k] * Pow2(8 * ((k - 1) % 4)))
       + LowSum(b, k + 1)

\* the int32 with top byte hi % 256 and low 24 bits lo
Int32Of(hi, lo) ==
  IF hi % 256 >= 128 THEN ((hi % 256) - 256) * 16777216 + lo
  ELSE (hi % 256) * 16777216 + lo

\* low + high * 2^24 brought to int32
ToInt32Sum(low, high) == Int32Of((low \div 16777216) + high, low % 16777216)

\* ToInt32(reduce(array)): reduce adds b << (k * 8), the shift count taken
\* modulo 32; the sum is brought to int32 by the first 32-bit operator
\* applied to it
reduce(b) == ToInt32Sum(LowSum(b, 1), HighSum(b, 1))

\* read(bits) at cursor b over the char codes arr: the value and the cursor
\* after it
readIn(arr, b, bits) ==
  [v |-> AndMask(Sar(reduce(Slice(arr, Floor8(b), Ceil8(b + bits))),
                     ShiftCount(b)),
                 bits),
   bit |-> b + bits]

\* read(bits) at cursor b of the reader made over the input
read(b, bits) == readIn(bytes, b, bits)

\* readByteArray(count) at cursor b: slice truncates bit / 8 and
\* (bit / 8) + count toward zero
readByteArray(b, count) ==
  [v |-> Slice(bytes, Trunc8(b), Trunc8(b + 8 * count)), bit |-> b + count * 8]

read8(b) == read(b, 8)
read16(b) == read(b, 16)
read32(b) == read(b, 32)
read64(b) == read(b, 64)

(***************************************************************************)
(* Results of the reading functions: st is "ok", the error thrown, or      *)
(* "bound" when a count read from the stream is beyond MaxCount (the model *)
(* does not follow such a stream); bit is the cursor, v the value.         *)
(***************************************************************************)
Res(st, b, v) == [st |-> st, bit |-> b, v |-> v]
Ok(b, v) == Res("ok", b, v)
Failed(r) == Res(r.st, r.bit, Undefined)
InCount(n) == n <= MaxCount

\* nextLength << (multiplier * 7) for a 7-bit nextLength, as an int32
ShiftGroup(n, multiplier) ==
  IF multiplier < 4 THEN n * Pow2(7 * multiplier)
  ELSE IF n % 16 >= 8 THEN ((n % 16) - 16) * 268435456
  ELSE (n % 16) * 268435456

\* the loop of readLengthPrefixedString from group j on: up to five groups
\* of read(7), read(1); the length and the cursor after the prefix
RECURSIVE PrefixLoop(_, _, _)
\* PrefixMore that leaves the cursor on the continuation bit of the last group
PrefixMoreFlagPeeked(j, len, more) ==
  IF more.v = 0 THEN [v |-> len, bit |-> more.bit - 1]
  ELSE PrefixLoop(more.bit, j + 1, len)

PrefixMore(j, len, more) ==
  IF more.v = 0 THEN [v |-> len, bit |-> more.bit]
  ELSE PrefixLoop(more.bit, j + 1, len)

PrefixGroup(j, len, nextLength) ==
  PrefixMore(j, len + ShiftGroup(nextLength.v, j), read(nextLength.bit, 1))

PrefixLoop(b, j, len) ==
  IF j >= 5 THEN [v |-> len, bit |-> b]
  ELSE PrefixGroup(j, len, read(b, 7))

\* charArray.map(x => String.fromCharCode(x)).join("")
StringOf(charArray) == Ok(charArray.bit, Str(charArray.v))

\* readByteArray(len) after the prefix: a negative len moves the cursor back
StringAfterPrefix(len) ==
  IF len.v < -MaxLength \/ len.v > MaxLength THEN Res("bound", len.bit, Undefined)
  ELSE StringOf(readByteArray(len.bit, len.v))

readLengthPrefixedString(b) == StringAfterPrefix(PrefixLoop(b, 0, 0))

\* readSingle and readDouble: the 32-bit words read, taken as an IEEE-754
\* value (the value is kept as its words)
SingleOf(w) == Ok(w.bit, Float(<<w.v>>))
readSingle(b) == SingleOf(read(b, 32))

DoubleOf(w0, w1) == Ok(w1.bit, Float(<<w0.v, w1.v>>))
DoubleHigh(w0) == DoubleOf(w0, read(w0.bit, 32))
readDouble(b) == DoubleHigh(read(b, 32))

(***************************************************************************)
(* The record decoders.  ReadFields reads consecutive fields, each with    *)
(* the reader method named; its value is the sequence of the fields (a     *)
(* string as its char codes).                                              *)
(***************************************************************************)
NumberField(r) == Ok(r.bit, r.v)
StringField(r) == IF r.st # "ok" THEN Failed(r) ELSE Ok(r.bit, r.v.s)

ReadField(b, method) ==
  IF method = "readLengthPrefixedString"
  THEN StringField(readLengthPrefixedString(b))
  ELSE NumberField(read(b, IF method = "read8" THEN 8 ELSE 32))

RECURSIVE ReadFields(_, _, _)
FieldRead(methods, acc, f) ==
  IF f.st # "ok" THEN Res(f.st, f.bit, acc)
  ELSE ReadFields(f.bit, methods, Append(acc, f.v))

ReadFields(b, methods, acc) ==
  IF Len(acc) >= Len(methods) THEN Ok(b, acc)
  ELSE FieldRead(methods, acc, ReadField(b, methods[Len(acc) + 1]))

\* n times the same method
Times(n, method) == [i \in 1..n |-> method]

HeaderOf(f) ==
  Ok(f.bit, [rootId |-> f.v[1], headerId |-> f.v[2],
             majorVersion |-> f.v[3], minorVersion |-> f.v[4]])

deserializeHeader(b) == HeaderOf(ReadFields(b, Times(4, "read32"), <<>>))

LibraryOf(f) ==
  IF f.st # "ok" THEN Failed(f) ELSE Ok(f.bit, [id |-> f.v[1], name |-> f.v[2]])

deserializeBinaryLibrary(b) ==
  LibraryOf(ReadFields(b, <<"read32", "readLengthPrefixedString">>, <<>>))

NumberInfo(r) == Ok(r.bit, Num(r.v))

ClassInfoOf(f) ==
  IF f.st # "ok" THEN Failed(f) ELSE Ok(f.bit, ClassInfo(f.v[1], f.v[2]))

deserializeAdditionalTypeInfo(b, type) ==
  IF type \in {1, 2, 5, 6} THEN Ok(b, Null)
  ELSE IF type \in {0, 7} THEN NumberInfo(read8(b))
  ELSE IF type = 3 THEN readLengthPrefixedString(b)
  ELSE IF type = 4
    THEN ClassInfoOf(ReadFields(b, <<"readLengthPrefixedString", "read32">>, <<>>))
  ELSE Ok(b, Undefined)

\* the loop over additionalInfos of deserializeClassWithMembersAndTypes
RECURSIVE ReadAdditionalInfos(_, _, _)
AdditionalInfoRead(types, acc, info) ==
  IF info.st # "ok" THEN Res(info.st, info.bit, acc)
  ELSE ReadAdditionalInfos(info.bit, types, Append(acc, info.v))

ReadAdditionalInfos(b, types, acc) ==
  IF Len(acc) >= Len(types) THEN Ok(b, acc)
  ELSE AdditionalInfoRead(types, acc,
         deserializeAdditionalTypeInfo(b, types[Len(acc) + 1]))

\* A composite on the heap.  typed says whether the object has memberTypes
\* (a ClassWithId copy of something that is no composite has none); a class
\* has no rank, which reads as 0.
Composite(objectId, name, memberNames, memberTypes, additionalInfos, libraryId) ==
  [objectId |-> objectId, name |-> name, memberNames |-> memberNames,
   memberTypes |-> memberTypes, additionalInfos |-> additionalInfos,
   libraryId |-> libraryId, memberValues |-> <<>>, typed |-> TRUE,
   rank |-> 0, lengths |-> <<>>, lowerBounds |-> <<>>, itemType |-> 0]

\* deserializeClassWithMembersAndTypes, field after field: head holds
\* objectId, name and memberCount
ClassLibraryId(head, names, types, infos, libraryId) ==
  Ok(libraryId.bit,
     Composite(head.v[1], head.v[2], names.v, types.v, infos.v, Num(libraryId.v)))

ClassAfterInfos(head, names, types, infos, isSystem) ==
  IF infos.st # "ok" THEN Failed(infos)
  ELSE IF isSystem
    THEN Ok(infos.bit,
            Composite(head.v[1], head.v[2], names.v, types.v, infos.v, Null))
  ELSE ClassLibraryId(head, names, types, infos, read32(infos.bit))

ClassAfterTypes(head, names, types, isSystem) ==
  ClassAfterInfos(head, names, types,
                  ReadAdditionalInfos(types.bit, types.v, <<>>), isSystem)

ClassAfterNames(head, names, isSystem) ==
  IF names.st # "ok" THEN Failed(names)
  ELSE ClassAfterTypes(head, names,
         ReadFields(names.bit, Times(Max(head.v[3], 0), "read8"), <<>>), isSystem)

ClassAfterHead(head, isSystem) ==
  IF head.st # "ok" THEN Failed(head)
  ELSE IF ~InCount(head.v[3]) THEN Res("bound", head.bit, Undefined)
  ELSE ClassAfterNames(head,
         ReadFields(head.bit,
                    Times(Max(head.v[3], 0), "readLengthPrefixedString"), <<>>),
         isSystem)

deserializeClassWithMembersAndTypes(b, isSystem) ==
  ClassAfterHead(
    ReadFields(b, <<"read32", "readLengthPrefixedString", "read32">>, <<>>),
    isSystem)

BinaryObjectStringOf(f) ==
  IF f.st # "ok" THEN Failed(f)
  ELSE Ok(f.bit, [objectId |-> f.v[1], value |-> Str(f.v[2])])

deserializeBinaryObjectString(b) ==
  BinaryObjectStringOf(ReadFields(b, <<"read32", "readLengthPrefixedString">>, <<>>))

deserializeMemberReference(b) == read32(b)

\* case 10 (sbyte): the reader bitReader returns has no read7 and no read1,
\* so the call reader.read7() throws a TypeError before anything is read
SByte(b) == Res("TypeError", b, Undefined)

BooleanOf(r) == Ok(r.bit, Bool(r.v # 0))

deserializePrimitiveType(b, type) ==
  CASE type = 0 -> Res("Unmapped primitive", b, Undefined)
    [] type = 1 -> BooleanOf(read8(b))
    [] type \in {2, 3} -> NumberInfo(read8(b))
    [] type = 4 -> Res("Unmapped primitive", b, Undefined)
    [] type \in {5, 18} -> readLengthPrefixedString(b)
    [] type = 6 -> readDouble(b)
    [] type \in {7, 14} -> NumberInfo(read16(b))
    [] type \in {8, 15} -> NumberInfo(read32(b))
    [] type \in {9, 12, 13, 16} -> NumberInfo(read64(b))
    [] type = 10 -> SByte(b)
    [] type = 11 -> readSingle(b)
    [] type = 17 -> Ok(b, Null)
    [] OTHER -> Ok(b, Undefined)

\* the loop of ArraySinglePrimitive: n more elements of one type
RECURSIVE ReadPrimitives(_, _, _, _)
PrimitiveRead(type, n, acc, e) ==
  IF e.st # "ok" THEN Res(e.st, e.bit, acc)
  ELSE ReadPrimitives(e.bit, type, n - 1, Append(acc, e.v))

ReadPrimitives(b, type, n, acc) ==
  IF n <= 0 THEN Ok(b, acc)
  ELSE PrimitiveRead(type, n, acc, deserializePrimitiveType(b, type))

(***************************************************************************)
(* state.objects: a JavaScript object keyed by object id, kept as the      *)
(* sequence of its [id, v] entries in the order the keys were created.     *)
(***************************************************************************)
HasKey(objs, id) == \E i \in 1..Len(objs) : objs[i].id = id

\* state.objects[id]
Lookup(objs, id) ==
  IF HasKey(objs, id)
  THEN objs[CHOOSE i \in 1..Len(objs) : objs[i].id = id].v
  ELSE Undefined

\* state.objects[id] = v: an existing key keeps its place
Put(objs, id, v) ==
  IF HasKey(objs, id)
  THEN [i \in 1..Len(objs) |-> IF objs[i].id = id THEN [id |-> id, v |-> v] ELSE objs[i]]
  ELSE Append(objs, [id |-> id, v |-> v])

\* Object.values(state.objects)[0]: own keys that are array indices (the
\* ids from 0 on) come first, in ascending numeric order; the other keys
\* (negative ids) follow in the order they were created
ObjectValuesFirst(objs) ==
  LET idx == {i \in 1..Len(objs) : objs[i].id >= 0}
  IN IF objs = <<>> THEN Undefined
     ELSE IF idx # {}
       THEN objs[CHOOSE i \in idx : \A j \in idx : objs[i].id <= objs[j].id].v
     ELSE objs[1].v

(***************************************************************************)
(* mapMembers.  The recursion of mapMembers on a composite that is         *)
(* reachable from itself never ends; the engine ends it with a RangeError  *)
(* (call stack exhausted), which is Overflow here.                         *)
(***************************************************************************)
Overflow == Val("overflow", 0, <<>>)
Mapping(members) == Val("mapping", 0, members)
ItemsName == <<95, 105, 116, 101, 109, 115>>
ValueName == <<118, 97, 108, 117, 101, 95, 95>>

\* obj.memberValues[idx] (1-based here), undefined past the end
ValueAt(seq, idx) == IF idx <= Len(seq) THEN seq[idx] ELSE Undefined

ProtoName == <<95, 95, 112, 114, 111, 116, 111, 95, 95>>

\* SetMember that keeps the value a name already has
SetMemberOnce(members, name, value) ==
  IF name = ProtoName THEN members
  ELSE [n \in (DOMAIN members) \cup {name} |->
          IF n \in DOMAIN members THEN members[n] ELSE value]

\* members[name] = value: the name "__proto__" reaches the prototype setter
\* of the object literal and makes no key
SetMember(members, name, value) ==
  IF name = ProtoName THEN members
  ELSE [n \in (DOMAIN members) \cup {name} |->
          IF n = name THEN value ELSE members[n]]

RECURSIVE mapMembers(_, _, _)
RECURSIVE MapArray(_, _, _, _)
RECURSIVE MapClass(_, _, _, _, _)

\* obj.memberValues.map(mapMembers) from element idx on
MapArray(h, values, acc, path) ==
  IF Len(acc) >= Len(values) THEN Arr(acc)
  ELSE LET p == mapMembers(h, values[Len(acc) + 1], path)
       IN IF p.k = "overflow" THEN Overflow
          ELSE MapArray(h, values, Append(acc, p), path)

\* the for (const idx in obj.memberNames) loop from idx on
MapClass(h, o, idx, members, path) ==
  IF idx > Len(o.memberNames) THEN Mapping(members)
  ELSE LET p == mapMembers(h, ValueAt(o.memberValues, idx), path)
       IN IF p.k = "overflow" THEN Overflow
          ELSE IF o.memberNames[idx] = ItemsName \/ o.memberNames[idx] = ValueName
            THEN p
          ELSE MapClass(h, o, idx + 1, SetMember(members, o.memberNames[idx], p), path)

\* mapMembers(obj) over heap h; path holds the composites being mapped
mapMembers(h, obj, path) ==
  IF obj.k # "object" THEN obj
  ELSE IF obj.n \in path THEN Overflow
  ELSE IF h[obj.n].rank # 0
    THEN MapArray(h, h[obj.n].memberValues, <<>>, path \cup {obj.n})
  ELSE MapClass(h, h[obj.n], 1, <<>>, path \cup {obj.n})

(***************************************************************************)
(* deserialize: the state of one call.                                     *)
(*   pc       "new" before bitReader(str), "loop" in the while loop,       *)
(*            "returned" after the return, "failed" after a throw          *)
(*   error    what was thrown                                              *)
(*   header   result.header                                                *)
(*   heap     the composites created so far; a composite is known by its   *)
(*            position in heap                                             *)
(*   objectStack, references, libraries, objects: the fields of state; a   *)
(*   reference is the closure's currentObject, idx and reference           *)
(***************************************************************************)
\* ValidStart without the comparison of bytes[0] with 0
ValidStartAnyByte(b) == Len(b) > 0

\* bitReader's test of bytes[0]
ValidStart(b) == Len(b) > 0 /\ b[1] = 0

\* currentObject: the position of the stack tip in heap, 0 when there is none
Tip == IF objectStack = <<>> THEN 0 ELSE objectStack[Len(objectStack)]

\* the loop runs; the model follows it while the cursor is in bounds
Running == pc = "loop" /\ bit >= 0 /\ bit <= 8 * Len(bytes) + MaxOverrun

\* currentMemberIdx < currentObject.memberTypes.length
MoreMembers(o) == Len(o.memberValues) < Len(o.memberTypes)

\* the iteration reaches reader.read8(): no current object, or its next
\* member is not primitive
AtRecord ==
  /\ Running
  /\ IF Tip = 0 THEN TRUE
     ELSE /\ heap[Tip].typed
          /\ MoreMembers(heap[Tip])
          /\ heap[Tip].memberTypes[Len(heap[Tip].memberValues) + 1] # 0

\* the record tag and the cursor after it
Record == read8(bit).v
AfterTag == read8(bit).bit

\* currentObject.memberValues.push(v) for the composite at heap position a
PushValue(h, a, v) == [h EXCEPT ![a].memberValues = Append(@, v)]

\* a throw leaves deserialize: the cursor is where the reader stood
Throw(kind, b) ==
  /\ pc' = "failed"
  /\ error' = kind
  /\ bit' = b
  /\ UNCHANGED <<bytes, header, libraries, objects, references, objectStack,
                 heap, result>>

\* const reader = bitReader(str)
BitReader ==
  /\ pc = "new"
  /\ IF ValidStart(bytes)
     THEN pc' = "loop" /\ UNCHANGED error
     ELSE pc' = "failed" /\ error' = "Unable to deserialize."
  /\ UNCHANGED <<bytes, bit, header, libraries, objects, references,
                 objectStack, heap, result>>

\* currentObject.memberTypes is undefined: reading its length throws
UntypedTip ==
  /\ Running
  /\ Tip # 0
  /\ ~heap[Tip].typed
  /\ Throw("TypeError", bit)

\* the primitive type code kept in additionalInfos
TypeCode(info) == IF info.k = "number" THEN info.n ELSE -1

\* currentObject.memberValues[currentMemberIdx] = (the primitive p)
StorePrimitive(p) ==
  /\ p.st # "bound"
  /\ IF p.st # "ok" THEN Throw(p.st, p.bit)
     ELSE /\ heap' = PushValue(heap, Tip, p.v)
          /\ bit' = p.bit
          /\ UNCHANGED <<bytes, pc, error, header, libraries, objects,
                         references, objectStack, result>>

\* a primitive member: decoded in place, no record prefix
FillPrimitive ==
  /\ Running
  /\ Tip # 0
  /\ heap[Tip].typed
  /\ MoreMembers(heap[Tip])
  /\ heap[Tip].memberTypes[Len(heap[Tip].memberValues) + 1] = 0
  /\ StorePrimitive(
       deserializePrimitiveType(bit,
         TypeCode(heap[Tip].additionalInfos[Len(heap[Tip].memberValues) + 1])))

\* all members are filled: state.objectStack.pop()
PopObject ==
  /\ Running
  /\ Tip # 0
  /\ heap[Tip].typed
  /\ ~MoreMembers(heap[Tip])
  /\ objectStack' = SubSeq(objectStack, 1, Len(objectStack) - 1)
  /\ UNCHANGED <<bytes, bit, pc, error, header, libraries, objects, references,
                 heap, result>>

StoreHeader(h) ==
  /\ header' = h.v
  /\ bit' = h.bit
  /\ UNCHANGED <<bytes, pc, error, libraries, objects, references, objectStack,
                 heap, result>>

\* case 0x00
SerializationHeaderRecord ==
  /\ AtRecord
  /\ Record = 0
  /\ StoreHeader(deserializeHeader(AfterTag))

\* {...m} with memberValues and objectId replaced, m = state.objects[metadataId]
CopyOf(h, m, objectId) ==
  IF m.k = "object"
  THEN [h[m.n] EXCEPT !.memberValues = <<>>, !.objectId = objectId]
  ELSE [Composite(objectId, <<>>, <<>>, <<>>, <<>>, Undefined)
          EXCEPT !.typed = FALSE]

\* a new composite: appended to the current object when there is one,
\* pushed on the stack and registered under its objectId
Introduce(cls, b) ==
  /\ heap' = IF Tip # 0
             THEN PushValue(Append(heap, cls), Tip, Obj(Len(heap) + 1))
             ELSE Append(heap, cls)
  /\ objectStack' = Append(objectStack, Len(heap) + 1)
  /\ objects' = Put(objects, cls.objectId, Obj(Len(heap) + 1))
  /\ bit' = b
  /\ UNCHANGED <<bytes, pc, error, header, libraries, references, result>>

\* IntroduceCopy without the spread: cls1 is the object registered under
\* metadataId itself, f holds objectId and metadataId
IntroduceCopyShared(f) ==
  IF Lookup(objects, f.v[2]).k # "object" THEN Throw("TypeError", f.bit)
  ELSE /\ heap' = IF Tip # 0
                  THEN PushValue([heap EXCEPT ![Lookup(objects, f.v[2]).n].memberValues = <<>>,
                                              ![Lookup(objects, f.v[2]).n].objectId = f.v[1]],
                                 Tip, Lookup(objects, f.v[2]))
                  ELSE [heap EXCEPT ![Lookup(objects, f.v[2]).n].memberValues = <<>>,
                                    ![Lookup(objects, f.v[2]).n].objectId = f.v[1]]
       /\ objectStack' = Append(objectStack, Lookup(objects, f.v[2]).n)
       /\ objects' = Put(objects, f.v[1], Lookup(objects, f.v[2]))
       /\ bit' = f.bit
       /\ UNCHANGED <<bytes, pc, error, header, libraries, references, result>>

\* f holds objectId and metadataId
IntroduceCopy(f) ==
  Introduce(CopyOf(heap, Lookup(objects, f.v[2]), f.v[1]), f.bit)

\* case 0x01
ClassWithId ==
  /\ AtRecord
  /\ Record = 1
  /\ IntroduceCopy(ReadFields(AfterTag, Times(2, "read32"), <<>>))

IntroduceClass(cls) ==
  /\ cls.st # "bound"
  /\ IF cls.st # "ok" THEN Throw(cls.st, cls.bit) ELSE Introduce(cls.v, cls.bit)

\* case 0x04, case 0x05
ClassWithMembersAndTypes ==
  /\ AtRecord
  /\ Record \in {4, 5}
  /\ IntroduceClass(deserializeClassWithMembersAndTypes(AfterTag, Record = 4))

\* the string is registered, then pushed to currentObject, which throws
\* when there is no current object
StoreString(bos) ==
  /\ bos.st # "bound"
  /\ IF bos.st # "ok" THEN Throw(bos.st, bos.bit)
     ELSE /\ objects' = Put(objects, bos.v.objectId, bos.v.value)
          /\ bit' = bos.bit
          /\ IF Tip = 0
             THEN pc' = "failed" /\ error' = "TypeError" /\ UNCHANGED heap
             ELSE heap' = PushValue(heap, Tip, bos.v.value) /\ UNCHANGED <<pc, error>>
          /\ UNCHANGED <<bytes, header, libraries, references, objectStack, result>>

\* case 0x06
BinaryObjectString ==
  /\ AtRecord
  /\ Record = 6
  /\ StoreString(deserializeBinaryObjectString(AfterTag))

\* lengths.reduce((x, y) => x + y) of a non-empty lengths
RECURSIVE SumOf(_)
SumOf(seq) == IF seq = <<>> THEN 0 ELSE seq[1] + SumOf(Tail(seq))

Repeat(n, v) == [i \in 1..n |-> v]

RECURSIVE ProductOf(_)
ProductOf(seq) == IF seq = <<>> THEN 1 ELSE seq[1] * ProductOf(Tail(seq))

\* TotalLength as the number of cells of the array, the product of lengths
TotalLengthProduct(lengths) == ProductOf(lengths)

\* const totalLength = lengths.reduce((x, y) => x + y)
TotalLength(lengths) == SumOf(lengths)

\* binaryArrayObj
BinaryArrayObj(head, lengths, lowerBounds, itemType, additionalInfo, totalLength) ==
  [objectId |-> head.v[1], name |-> <<>>, memberNames |-> <<>>,
   memberTypes |-> Repeat(totalLength, itemType),
   additionalInfos |-> Repeat(totalLength, additionalInfo),
   libraryId |-> Undefined, memberValues |-> <<>>, typed |-> TRUE,
   rank |-> head.v[3], lengths |-> lengths, lowerBounds |-> lowerBounds,
   itemType |-> itemType]

\* the BinaryArray record, field after field: head holds objectId,
\* binaryArrayType and rank.  reduce of an empty lengths throws a TypeError,
\* Array() of a negative length a RangeError.
BinaryArrayAfterInfo(head, lengths, lowerBounds, itemType, additionalInfo) ==
  IF additionalInfo.st # "ok" THEN Failed(additionalInfo)
  ELSE IF lengths.v = <<>> THEN Res("TypeError", additionalInfo.bit, Undefined)
  ELSE IF \E i \in 1..Len(lengths.v) :
            lengths.v[i] > MaxCount \/ lengths.v[i] < -MaxCount
    THEN Res("bound", additionalInfo.bit, Undefined)
  ELSE IF TotalLength(lengths.v) < 0
    THEN Res("RangeError", additionalInfo.bit, Undefined)
  ELSE IF ~InCount(TotalLength(lengths.v))
    THEN Res("bound", additionalInfo.bit, Undefined)
  ELSE Ok(additionalInfo.bit,
          BinaryArrayObj(head, lengths.v, lowerBounds.v, itemType.v,
                         additionalInfo.v, TotalLength(lengths.v)))

BinaryArrayAfterItemType(head, lengths, lowerBounds, itemType) ==
  BinaryArrayAfterInfo(head, lengths, lowerBounds, itemType,
                       deserializeAdditionalTypeInfo(itemType.bit, itemType.v))

BinaryArrayAfterLowerBounds(head, lengths, lowerBounds) ==
  BinaryArrayAfterItemType(head, lengths, lowerBounds, read8(lowerBounds.bit))

BinaryArrayAfterLengths(head, lengths) ==
  BinaryArrayAfterLowerBounds(head, lengths,
    IF head.v[2] > 2
    THEN ReadFields(lengths.bit, Times(head.v[3], "read32"), <<>>)
    ELSE Ok(lengths.bit, <<>>))

BinaryArrayAfterHead(head) ==
  IF ~InCount(head.v[3]) THEN Res("bound", head.bit, Undefined)
  ELSE BinaryArrayAfterLengths(head,
         ReadFields(head.bit, Times(head.v[3], "read32"), <<>>))

BinaryArrayRecordAt(b) ==
  BinaryArrayAfterHead(ReadFields(b, <<"read32", "read8", "read32">>, <<>>))

\* IntroduceArray that appends the array to currentObject as the class
\* records do
IntroduceArrayAppended(arr) ==
  /\ arr.st # "bound"
  /\ IF arr.st # "ok" THEN Throw(arr.st, arr.bit) ELSE Introduce(arr.v, arr.bit)

\* the array is registered and pushed, and not appended to currentObject
IntroduceArray(arr) ==
  /\ arr.st # "bound"
  /\ IF arr.st # "ok" THEN Throw(arr.st, arr.bit)
     ELSE /\ heap' = Append(heap, arr.v)
          /\ objects' = Put(objects, arr.v.objectId, Obj(Len(heap) + 1))
          /\ objectStack' = Append(objectStack, Len(heap) + 1)
          /\ bit' = arr.bit
          /\ UNCHANGED <<bytes, pc, error, header, libraries, references, result>>

\* case 0x07
BinaryArray ==
  /\ AtRecord
  /\ Record = 7
  /\ IntroduceArray(BinaryArrayRecordAt(AfterTag))

\* the closure keeps currentObject, idx and reference
StoreReference(reference) ==
  IF Tip = 0 THEN Throw("TypeError", reference.bit)
  ELSE /\ references' = Append(references,
            [obj |-> Tip, idx |-> Len(heap[Tip].memberValues) + 1,
             reference |-> reference.v])
       /\ heap' = PushValue(heap, Tip, RefPlaceholder(reference.v))
       /\ bit' = reference.bit
       /\ UNCHANGED <<bytes, pc, error, header, libraries, objects,
                      objectStack, result>>

\* case 0x09
MemberReference ==
  /\ AtRecord
  /\ Record = 9
  /\ StoreReference(deserializeMemberReference(AfterTag))

\* case 0x0A
ObjectNull ==
  /\ AtRecord
  /\ Record = 10
  /\ IF Tip = 0 THEN Throw("TypeError", AfterTag)
     ELSE /\ heap' = PushValue(heap, Tip, Null)
          /\ bit' = AfterTag
          /\ UNCHANGED <<bytes, pc, error, header, libraries, objects,
                         references, objectStack, result>>

\* ApplyReference that leaves the placeholder of an id that is not registered
ApplyReferenceIfRegistered(h, objs, r) ==
  IF HasKey(objs, r.reference)
  THEN [h EXCEPT ![r.obj].memberValues[r.idx] = Lookup(objs, r.reference)]
  ELSE h

\* r(): currentObject.memberValues[idx] = state.objects[reference]
ApplyReference(h, objs, r) ==
  [h EXCEPT ![r.obj].memberValues[r.idx] = Lookup(objs, r.reference)]

\* for (const r of state.references) r(), from reference i on
RECURSIVE ApplyReferences(_, _, _, _)
ApplyReferences(h, objs, refs, i) ==
  IF i > Len(refs) THEN h
  ELSE ApplyReferences(ApplyReference(h, objs, refs[i]), objs, refs, i + 1)

\* return mapMembers(c): r is the value mapMembers gives over heap h
Return(h, r) ==
  /\ heap' = h
  /\ bit' = AfterTag
  /\ IF r.k = "overflow"
     THEN pc' = "failed" /\ error' = "RangeError" /\ UNCHANGED result
     ELSE pc' = "returned" /\ result' = r /\ UNCHANGED error
  /\ UNCHANGED <<bytes, header, libraries, objects, references, objectStack>>

\* the references are applied (heap h), the first value of state.objects is
\* mapped and returned
ReturnFirst(h) == Return(h, mapMembers(h, ObjectValuesFirst(objects), {}))

\* case 0x0B
MessageEnd ==
  /\ AtRecord
  /\ Record = 11
  /\ ReturnFirst(ApplyReferences(heap, objects, references, 1))

StoreLibrary(lib) ==
  /\ lib.st # "bound"
  /\ IF lib.st # "ok" THEN Throw(lib.st, lib.bit)
     ELSE /\ libraries' = Append(libraries, lib.v)
          /\ bit' = lib.bit
          /\ UNCHANGED <<bytes, pc, error, header, objects, references,
                         objectStack, heap, result>>

\* case 0x0C
BinaryLibraryRecord ==
  /\ AtRecord
  /\ Record = 12
  /\ StoreLibrary(deserializeBinaryLibrary(AfterTag))

PushNulls(nullCount) ==
  IF Tip = 0 THEN Throw("TypeError", nullCount.bit)
  ELSE /\ InCount(nullCount.v)
       /\ heap' = [heap EXCEPT ![Tip].memberValues = @ \o Repeat(nullCount.v, Null)]
       /\ bit' = nullCount.bit
       /\ UNCHANGED <<bytes, pc, error, header, libraries, objects,
                      references, objectStack, result>>

\* case 0x0D
ObjectNull256 ==
  /\ AtRecord
  /\ Record = 13
  /\ PushNulls(read8(AfterTag))

\* state.objects[arrayObjectId] = array; head holds arrayObjectId, length, type
StoreArray(head, array) ==
  /\ array.st # "bound"
  /\ IF array.st # "ok" THEN Throw(array.st, array.bit)
     ELSE /\ objects' = Put(objects, head.v[1], Arr(array.v))
          /\ bit' = array.bit
          /\ UNCHANGED <<bytes, pc, error, header, libraries, references,
                         objectStack, heap, result>>

ReadArray(head) ==
  /\ InCount(head.v[2])
  /\ StoreArray(head, ReadPrimitives(head.bit, head.v[3], head.v[2], <<>>))

\* case 0x0F
ArraySinglePrimitive ==
  /\ AtRecord
  /\ Record = 15
  /\ ReadArray(ReadFields(AfterTag, <<"read32", "read32", "read8">>, <<>>))

\* the record tags the switch has a case for
HandledRecords == {0, 1, 4, 5, 6, 7, 9, 10, 11, 12, 13, 15}

\* UnknownRecord as a default case that breaks instead of throwing
UnknownRecordSkipped ==
  /\ AtRecord
  /\ Record \notin HandledRecords
  /\ bit' = AfterTag
  /\ UNCHANGED <<bytes, pc, error, header, libraries, objects, references,
                 objectStack, heap, result>>

\* default
UnknownRecord ==
  /\ AtRecord
  /\ Record \notin HandledRecords
  /\ Throw("unable to deserialize record", AfterTag)

(***************************************************************************)
(* The inputs: strings of char codes 0..255 (atob's output), built from    *)
(* the header record, chunks and a tail.                                   *)
(***************************************************************************)
\* a non-negative int32, little-endian
U32(n) == <<n % 256, (n \div 256) % 256, (n \div 65536) % 256, (n \div 16777216) % 256>>
MinusOne == <<255, 255, 255, 255>>
\* a string of fewer than 128 chars with its length prefix
LPS(chars) == <<Len(chars)>> \o chars

RECURSIVE Concat(_)
Concat(seqs) == IF seqs = <<>> THEN <<>> ELSE seqs[1] \o Concat(Tail(seqs))

HeaderRecord == <<0>> \o U32(1) \o MinusOne \o U32(1) \o U32(0)
EndRecord == <<11>>

\* a class record: tag 4 (system) or 5, then the inline member values
ClassRecord(tag, id, names, types, infos, values) ==
  <<tag>> \o U32(id) \o LPS(<<67>>) \o U32(Len(names))
    \o Concat([i \in 1..Len(names) |-> LPS(names[i])])
    \o types \o infos \o (IF tag = 5 THEN U32(3) ELSE <<>>) \o values

NameA == <<97>>
NameB == <<98>>

\* class 1 with one String member
ClassWithString == ClassRecord(5, 1, <<NameA>>, <<1>>, <<>>, <<>>)
\* class 2 with an int32 and a boolean member, 42 and true
ClassWithPrimitives ==
  ClassRecord(4, 2, <<NameA, NameB>>, <<0, 0>>, <<8, 1>>, <<42, 0, 0, 0, 1>>)
\* class 6 with byte members b, _items, value__
ClassWithItems ==
  ClassRecord(5, 6, <<NameB, ItemsName, ValueName>>, <<0, 0, 0>>, <<2, 2, 2>>,
              <<1, 7, 3>>)
\* class 3 with byte members a, __proto__, a
ClassWithRepeats ==
  ClassRecord(5, 3, <<NameA, ProtoName, NameA>>, <<0, 0, 0>>, <<2, 2, 2>>,
              <<1, 2, 3>>)
ReferenceRecord(id) == <<9>> \o U32(id)
StringRecord == <<6>> \o U32(5) \o LPS(<<104>>)
\* ArraySinglePrimitive of one element of primitive type code type
ArrayRecord(id, type, values) == <<15>> \o id \o U32(1) \o <<type>> \o values
\* BinaryArray -1, rank 1, lengths [1], items of type String
BinaryArrayRecord == <<7>> \o MinusOne \o <<0>> \o U32(1) \o U32(1) \o <<1>>
ClassWithIdRecord == <<1>> \o U32(4) \o U32(1)
LibraryRecord == <<12>> \o U32(3) \o LPS(<<76>>)

Chunks ==
  {ClassWithString, ClassWithPrimitives, ReferenceRecord(1), ReferenceRecord(5),
   <<10>>, <<13, 2>>, StringRecord, ArrayRecord(U32(5), 2, <<7>>),
   BinaryArrayRecord, ClassWithIdRecord}

\* the header, up to n chunks, and MessageEnd or nothing
Streams(n) ==
  {HeaderRecord \o Concat(cs) \o tail :
     cs \in UNION {[1..k -> Chunks] : k \in 0..n}, tail \in {<<>>, EndRecord}}

\* streams cut inside their last field
Truncated ==
  {SubSeq(s, 1, Len(s) - k) : s \in Streams(MaxChunks - 1), k \in 1..MaxCut}

\* classes with member names that mapMembers treats specially, at top level,
\* after a library and as the item of a binary array
NamedStreams ==
  {HeaderRecord \o open \o c \o EndRecord :
     open \in {<<>>, LibraryRecord, BinaryArrayRecord},
     c \in {ClassWithItems, ClassWithRepeats}}

\* every record tag, at top level and inside an open class
TagStreams ==
  {HeaderRecord \o open \o <<t>> \o EndRecord :
     open \in {<<>>, ClassWithString}, t \in 0..255}

\* every primitive type code, as a class member and as an array element
PrimitiveStreams ==
  {HeaderRecord \o c \o EndRecord :
     c \in {ClassRecord(5, 1, <<NameA>>, <<0>>, <<t>>, <<>>) : t \in 0..255}
           \cup {ArrayRecord(U32(5), t, <<>>) : t \in 0..255}}

\* eight bytes of a primitive value
ValueBytes ==
  {<<0, 0, 0, 0, 0, 0, 0, 0>>, <<127, 0, 0, 0, 0, 0, 0, 0>>,
   <<128, 0, 0, 0, 0, 0, 0, 0>>, <<255, 255, 255, 255, 255, 255, 255, 255>>,
   <<0, 0, 0, 1, 0, 0, 0, 0>>, <<0, 0, 0, 128, 0, 0, 0, 1>>}

\* a class with one primitive member of a numeric type code and its bytes
ValueStreams ==
  {HeaderRecord \o ClassRecord(5, 1, <<NameA>>, <<0>>, <<t>>, v) \o EndRecord :
     t \in {8, 9, 10, 12, 13, 15, 16}, v \in ValueBytes}

\* length prefixes with the bytes that follow them: lengths 1, 2 and 257
\* with all their bytes, lengths 3 and 257 with one byte, a second group of
\* zero, and five groups that sum to -1 without and with a last continuation
\* bit
PrefixedBytes ==
  {<<1, 104>>, <<2, 104, 105>>, <<129, 2>> \o [i \in 1..257 |-> 104],
   <<3, 104>>, <<129, 2, 104>>, <<128, 0>>,
   <<255, 255, 255, 255, 15>>, <<255, 255, 255, 255, 255>>}

\* a BinaryObjectString with each of these prefixes as the member of a class
StringStreams ==
  {HeaderRecord \o ClassWithString \o <<6>> \o U32(5) \o p \o EndRecord :
     p \in PrefixedBytes}

\* class 7 with a String member a and a byte member b
ClassWithMixed == ClassRecord(5, 7, <<NameA, NameB>>, <<1, 0>>, <<2>>, <<>>)

\* the records that fill a member, read for member a of class 7, then a byte
MixedStreams ==
  {HeaderRecord \o ClassWithMixed \o r \o <<9>> \o EndRecord :
     r \in {<<10>>, <<13, 1>>, <<13, 2>>, StringRecord, ReferenceRecord(5),
            ClassWithPrimitives}}

\* BinaryArray 8 of the binaryArrayType and lengths given, with lower bounds
\* 0 when the type has them, items of type String
BinaryArrayOf(type, lengths) ==
  <<7>> \o U32(8) \o <<type>> \o U32(Len(lengths))
    \o Concat([i \in 1..Len(lengths) |-> U32(lengths[i])])
    \o (IF type > 2 THEN Concat([i \in 1..Len(lengths) |-> U32(0)]) ELSE <<>>)
    \o <<1>>

\* binary arrays of every binaryArrayType, of rank 0, 1 and 2
ArrayStreams ==
  {HeaderRecord \o BinaryArrayOf(type, lengths) \o tail \o EndRecord :
     type \in 0..5,
     lengths \in {<<>>, <<1>>, <<0, 0>>, <<2, 3>>, <<3, 1>>},
     tail \in {<<>>, <<10>>, <<13, 5>>}}

\* inputs that do not start with 0x00
BadStarts ==
  {<<>>} \cup {<<c>> \o Tail(s) : c \in {1, 11, 255}, s \in Streams(1)}

Inputs == Streams(MaxChunks) \cup Truncated \cup NamedStreams \cup TagStreams
            \cup PrimitiveStreams \cup ValueStreams \cup StringStreams
            \cup MixedStreams \cup ArrayStreams
            \cup BadStarts

NoHeader == [rootId |-> 0, headerId |-> 0, majorVersion |-> 0, minorVersion |-> 0]

Init ==
  /\ bytes \in Inputs
  /\ bit = 0
  /\ pc = "new"
  /\ error = "none"
  /\ header = NoHeader
  /\ libraries = <<>>
  /\ objects = <<>>
  /\ references = <<>>
  /\ objectStack = <<>>
  /\ heap = <<>>
  /\ result = Undefined

Next ==
  \/ BitReader
  \/ UntypedTip
  \/ FillPrimitive
  \/ PopObject
  \/ SerializationHeaderRecord
  \/ ClassWithId
  \/ ClassWithMembersAndTypes
  \/ BinaryObjectString
  \/ BinaryArray
  \/ MemberReference
  \/ ObjectNull
  \/ MessageEnd
  \/ BinaryLibraryRecord
  \/ ObjectNull256
  \/ ArraySinglePrimitive
  \/ UnknownRecord

Spec == Init /\ [][Next]_vars

(***************************************************************************)
(* Properties.                                                             *)
(***************************************************************************)
\* a {ref: id} placeholder occurs in value v
RECURSIVE HasPlaceholder(_)
HasPlaceholder(v) ==
  \/ v.k = "ref"
  \/ v.k = "array" /\ \E i \in 1..Len(v.s) : HasPlaceholder(v.s[i])
  \/ v.k = "mapping" /\ \E n \in DOMAIN v.s : HasPlaceholder(v.s[n])

\* C1: when deserialize returns, no composite holds a {ref: id} placeholder
\* in its memberValues and none occurs in the returned tree.
NoPlaceholderReturned ==
  pc = "returned" =>
    /\ ~HasPlaceholder(result)
    /\ \A a \in 1..Len(heap) : \A i \in 1..Len(heap[a].memberValues) :
         heap[a].memberValues[i].k # "ref"

\* C1 witness: a return after a MemberReference to a registered array, whose
\* member now holds the array
ReferenceResolved ==
  /\ pc = "returned"
  /\ \E i \in 1..Len(references) : Lookup(objects, references[i].reference).k = "array"
  /\ result.k = "mapping"
  /\ \E n \in DOMAIN result.s : result.s[n].k = "array"

\* C2: deserialize returns the projection of the object that was inserted
\* first into the object table, whatever the object ids are.
ReturnsFirstInserted ==
  pc = "returned" =>
    result = mapMembers(heap, IF objects = <<>> THEN Undefined ELSE objects[1].v, {})

\* C3: a read past the end of the input ends the decode in a failure: the
\* loop never goes on with the cursor past the end of the input.
TruncatedInputFails == pc = "loop" => bit <= 8 * Len(bytes)

\* C4: when deserialize returns, the stack of open composites is empty and
\* every composite registered in the object table has as many memberValues
\* as memberTypes.
ReturnsCompleteTree ==
  pc = "returned" =>
    /\ objectStack = <<>>
    /\ \A i \in 1..Len(objects) :
         objects[i].v.k = "object" =>
           Len(heap[objects[i].v.n].memberValues) = Len(heap[objects[i].v.n].memberTypes)

\* C5: deserialize does not return when a MemberReference names an object id
\* that is not in the object table at MessageEnd.
DanglingReferenceFails ==
  pc = "returned" =>
    \A i \in 1..Len(references) : HasKey(objects, references[i].reference)

\* C6: on an input that is empty or does not start with 0x00, deserialize
\* fails in bitReader with nothing read and nothing recorded.
InvalidStartFailsAtCreation ==
  (IF bytes = <<>> THEN TRUE ELSE bytes[1] # 0) =>
    /\ pc \in {"new", "failed"}
    /\ pc = "failed" => error = "Unable to deserialize."
    /\ bit = 0
    /\ header = NoHeader
    /\ libraries = <<>> /\ objects = <<>> /\ references = <<>>
    /\ objectStack = <<>> /\ heap = <<>>
    /\ result = Undefined

\* C6 witness: the failure on an input whose first byte is not 0x00
InvalidStartFailed == pc = "failed" /\ bytes # <<>> /\ bytes[1] # 0

\* C7: a record tag other than 0x00, 0x01, 0x04..0x07, 0x09..0x0D, 0x0F read
\* by the main loop makes deserialize fail, with no value returned.
UnknownTagFails ==
  [][(AtRecord /\ Record \notin {0, 1, 4, 5, 6, 7, 9, 10, 11, 12, 13, 15})
       => (pc' = "failed" /\ error' = "unable to deserialize record"
           /\ result' = Undefined)]_vars

\* C7 witness: the failure on tag 0x11 read for a member of an open class
UnknownTagFailed ==
  /\ pc = "failed"
  /\ error = "unable to deserialize record"
  /\ objectStack # <<>>
  /\ bytes[bit \div 8] = 17

\* the primitive type codes deserializePrimitiveType has a value for
MappedCodes == (1..18) \ {4}

\* the next step decodes a primitive member of the stack tip
AtPrimitive ==
  /\ Running
  /\ Tip # 0
  /\ heap[Tip].typed
  /\ MoreMembers(heap[Tip])
  /\ heap[Tip].memberTypes[Len(heap[Tip].memberValues) + 1] = 0

\* the next step reads an ArraySinglePrimitive of at least one element of
\* primitive type code outside codes
AtArrayOutside(codes) ==
  /\ AtRecord
  /\ Record = 15
  /\ read32(AfterTag + 32).v \in 1..MaxCount
  /\ read8(AfterTag + 64).v \notin codes

\* C8: decoding a primitive of an unmapped type code, as a class member or
\* as an array element, fails the decode.
UnmappedPrimitiveFails ==
  [][((/\ AtPrimitive
       /\ TypeCode(heap[Tip].additionalInfos[Len(heap[Tip].memberValues) + 1])
            \notin MappedCodes)
      \/ AtArrayOutside(MappedCodes))
       => pc' = "failed"]_vars

\* the indices of the members of composite o named "_items" or "value__"
SpecialMembers(o) ==
  {i \in 1..Len(o.memberNames) : o.memberNames[i] \in {ItemsName, ValueName}}

\* the projection of member i of composite o over the heap
MemberProjection(o, i) == mapMembers(heap, ValueAt(o.memberValues, i), {})

\* the projections of the memberValues of composite o, in order
ProjectedValues(o) ==
  Arr([i \in 1..Len(o.memberValues) |-> mapMembers(heap, o.memberValues[i], {})])

\* the last index at which composite o has a member of this name
LastNamed(o, name) ==
  CHOOSE i \in 1..Len(o.memberNames) :
    /\ o.memberNames[i] = name
    /\ \A j \in 1..Len(o.memberNames) : o.memberNames[j] = name => j <= i

\* the first member of composite o named "_items" or "value__"
FirstSpecial(o) == CHOOSE i \in SpecialMembers(o) : \A j \in SpecialMembers(o) : i <= j

\* the parts of the projection that do not depend on the member names: a
\* value without memberValues is returned unchanged, a BinaryArray composite
\* projects to its projected memberValues, a composite with a member named
\* "_items" or "value__" projects to the projection of the first such member
ProjectsOutsideMapping(a, p) ==
  /\ \A i \in 1..Len(objects) :
       objects[i].v.k # "object" => mapMembers(heap, objects[i].v, {}) = objects[i].v
  /\ heap[a].rank # 0 => p = ProjectedValues(heap[a])
  /\ (heap[a].rank = 0 /\ SpecialMembers(heap[a]) # {}) =>
       p = MemberProjection(heap[a], FirstSpecial(heap[a]))

\* a class composite without special members: the keys are its memberNames
\* and memberNames[i] is mapped to the projection of memberValues[i]
MapsEveryMember(o, p) ==
  /\ p.k = "mapping"
  /\ DOMAIN p.s = {o.memberNames[i] : i \in 1..Len(o.memberNames)}
  /\ \A i \in 1..Len(o.memberNames) : p.s[o.memberNames[i]] = MemberProjection(o, i)

\* a class composite without special members: the keys are its memberNames
\* other than "__proto__" and a name is mapped to the projection of the
\* memberValues entry of its last occurrence
MapsLastMember(o, p) ==
  /\ p.k = "mapping"
  /\ DOMAIN p.s = {o.memberNames[i] : i \in 1..Len(o.memberNames)} \ {ProtoName}
  /\ \A n \in DOMAIN p.s : p.s[n] = MemberProjection(o, LastNamed(o, n))

StringAtTopLevelRegistered ==
  [][(/\ AtRecord
      /\ Record = 6
      /\ Tip = 0
      /\ deserializeBinaryObjectString(AfterTag).st = "ok")
       => (/\ pc' = "loop"
           /\ Lookup(objects', deserializeBinaryObjectString(AfterTag).v.objectId)
                = deserializeBinaryObjectString(AfterTag).v.value)]_vars

\* C11: in every state reached while parsing, every composite has at most
\* as many memberValues as memberTypes, and a step pops the stack tip only
\* when the two lengths are equal.
CompositesNeverOverfilled ==
  [][/\ \A a \in 1..Len(heap') :
          heap'[a].typed => Len(heap'[a].memberValues) <= Len(heap'[a].memberTypes)
     /\ (Tip # 0 /\ objectStack' = SubSeq(objectStack, 1, Len(objectStack) - 1))
          => Len(heap[Tip].memberValues) = Len(heap[Tip].memberTypes)]_vars

\* the primitive type code of the member the next step decodes
NextCode == TypeCode(heap[Tip].additionalInfos[Len(heap[Tip].memberValues) + 1])

\* the byte at the cursor, which is byte-aligned
ByteAt(b) == bytes[(b \div 8) + 1]

\* the value of a byte taken as 7 magnitude bits and a sign bit
SByteOf(byte) == IF byte >= 128 THEN (byte % 128) - 128 ELSE byte

\* C12: decoding a primitive of type code 10 from one input byte yields its
\* low 7 bits when bit 7 is clear and the low 7 bits minus 128 when bit 7 is
\* set, and consumes 8 bits.
SByteDecoded ==
  [][(AtPrimitive /\ NextCode = 10 /\ bit + 8 <= 8 * Len(bytes))
       => (/\ pc' = "loop"
           /\ bit' = bit + 8
           /\ heap'[Tip].memberValues
                = Append(heap[Tip].memberValues, Num(SByteOf(ByteAt(bit)))))]_vars

\* the record tags whose first field is read with read32
RecordsWithId == {0, 1, 4, 5, 6, 7, 9, 12, 15}

\* r is the result of read32 at cursor b and holds the unsigned
\* little-endian value of the four bytes at b
UnsignedAt(r, b) ==
  /\ r.v >= 0
  /\ r.v % 16777216 = ByteAt(b) + 256 * ByteAt(b + 8) + 65536 * ByteAt(b + 16)
  /\ r.v \div 16777216 = ByteAt(b + 24)
  /\ r.bit = b + 32

\* C13: read32 at a byte-aligned cursor returns the unsigned little-endian
\* value of the next four bytes, in [0, 2^32), and advances the cursor by 32
\* bits; stated of the first field of every record that starts with read32.
Read32Unsigned ==
  (AtRecord /\ Record \in RecordsWithId /\ AfterTag + 32 <= 8 * Len(bytes))
    => UnsignedAt(read32(AfterTag), AfterTag)

\* the input with the byte at position i (from 1) raised by one modulo 256
OtherByte(i) == [bytes EXCEPT ![i] = (@ + 1) % 256]

\* C14: a 64-bit primitive (type codes 9, 12, 13, 16) is surfaced as the raw
\* value of its eight bytes: changing any of the eight bytes changes the
\* value decoded, and the cursor advances by 64 bits.
Read64Raw ==
  (AtPrimitive /\ NextCode \in {9, 12, 13, 16} /\ bit + 64 <= 8 * Len(bytes))
    => /\ read64(bit).bit = bit + 64
       /\ \A i \in 1..8 :
            readIn(OtherByte((bit \div 8) + i), bit, 64).v # read64(bit).v

\* the cursor of the length prefix of the BinaryObjectString the next step
\* reads (after the tag and the object id)
PrefixAt == AfterTag + 32

\* the number of groups of the prefix at cursor b: up to the first byte
\* whose top bit is clear, five at most
RECURSIVE GroupsFrom(_, _)
GroupsFrom(b, j) ==
  IF j >= 5 THEN j
  ELSE IF b + 8 * j > 8 * Len(bytes) THEN j
  ELSE IF ByteAt(b + 8 * (j - 1)) < 128 THEN j
  ELSE GroupsFrom(b, j + 1)

\* the bytes of the groups of the prefix at b are in the input
PrefixInInput(b) == b + 8 * GroupsFrom(b, 1) <= 8 * Len(bytes)

\* the sum of (low 7 bits of byte i) << (7 * i) is below 2^31
LengthFits(b) == GroupsFrom(b, 1) < 5 \/ ByteAt(b + 32) % 128 < 8

\* the sum over the groups read of (low 7 bits of byte i) << (7 * i)
RECURSIVE GroupSum(_, _, _)
GroupSum(b, i, n) ==
  IF i >= n THEN 0
  ELSE (ByteAt(b + 8 * i) % 128) * Pow2(7 * i) + GroupSum(b, i + 1, n)

PrefixLength(b) == GroupSum(b, 0, GroupsFrom(b, 1))

\* the cursor after the prefix at b
PrefixEnd(b) == b + 8 * GroupsFrom(b, 1)

\* the bytes of the input left after the prefix at b
Remaining(b) == Len(bytes) - (PrefixEnd(b) \div 8)

\* the next step reads a BinaryObjectString for a member of an open class
AtMemberString ==
  /\ AtRecord
  /\ Record = 6
  /\ Tip # 0
  /\ PrefixInInput(PrefixAt)

\* C15: readLengthPrefixedString takes as length the sum over the groups
\* read of (low 7 bits of byte i) << (7 * i), reads a next group only while
\* the continuation bit is set and at most five groups, and reads exactly
\* that many following bytes as the string.
StringOfPrefixLength ==
  [][AtMemberString
       => (/\ LengthFits(PrefixAt)
           /\ pc' = "loop"
           /\ bit' = PrefixEnd(PrefixAt) + 8 * PrefixLength(PrefixAt)
           /\ Len(heap'[Tip].memberValues) = Len(heap[Tip].memberValues) + 1
           /\ heap'[Tip].memberValues[Len(heap'[Tip].memberValues)].k = "string"
           /\ Len(heap'[Tip].memberValues[Len(heap'[Tip].memberValues)].s)
                = PrefixLength(PrefixAt))]_vars

\* the prefix at b is malformed: its fifth group has the continuation bit
\* set, or its length exceeds the bytes that remain
Malformed(b) ==
  \/ GroupsFrom(b, 1) = 5 /\ ByteAt(b + 32) >= 128
  \/ ~LengthFits(b)
  \/ LengthFits(b) /\ PrefixLength(b) > Remaining(b)

\* C16: a length-prefixed string whose decoded length exceeds the bytes
\* that remain, or whose fifth group has its continuation bit set, fails
\* the decode.
MalformedLengthFails ==
  [][(AtMemberString /\ Malformed(PrefixAt)) => pc' = "failed"]_vars

\* the step is the inline decode of the primitive member at the cursor:
\* its value is appended to the stack tip and no more than it is consumed
InlineDecode(p) ==
  /\ p.st = "ok"
  /\ bit' = p.bit
  /\ heap'[Tip].memberValues = Append(heap[Tip].memberValues, p.v)

\* slot i of composite a is of type Primitive and this step fills it
FillsPrimitiveSlot(a, i) ==
  /\ heap[a].memberTypes[i] = 0
  /\ i > Len(heap[a].memberValues)
  /\ i <= Len(heap'[a].memberValues)

\* C17: a member slot of type Primitive is filled only by the inline decode
\* of the type code in additionalInfos at its index, with no record tag
\* consumed; while the tip's next slot is primitive no record is read, and
\* records fill non-primitive slots only.
PrimitiveSlotsFilledInline ==
  [][/\ \A a \in 1..Len(heap) : \A i \in 1..Len(heap[a].memberTypes) :
          FillsPrimitiveSlot(a, i)
            => (/\ AtPrimitive
                /\ a = Tip
                /\ i = Len(heap[a].memberValues) + 1
                /\ InlineDecode(deserializePrimitiveType(bit, NextCode)))
     /\ AtPrimitive
          => (pc' = "failed" \/ InlineDecode(deserializePrimitiveType(bit, NextCode)))]_vars

\* C18: a BinaryArray record and an ArraySinglePrimitive record read while a
\* composite is open leave the memberValues of every composite unchanged;
\* the BinaryArray is registered and pushed on the stack, the
\* ArraySinglePrimitive is registered and leaves the stack unchanged.
ArraysLeaveParent ==
  [][(AtRecord /\ Tip # 0 /\ Record \in {7, 15} /\ pc' = "loop")
       => (/\ \A a \in 1..Len(heap) : heap'[a] = heap[a]
           /\ IF Record = 7
              THEN /\ Len(heap') = Len(heap) + 1
                   /\ heap'[Len(heap')].rank # 0
                   /\ objectStack' = Append(objectStack, Len(heap'))
                   /\ Lookup(objects', read32(AfterTag).v) = Obj(Len(heap'))
              ELSE /\ heap' = heap
                   /\ objectStack' = objectStack
                   /\ Lookup(objects', read32(AfterTag).v).k = "array")]_vars

\* C18 witness: a class is open with no member filled, an array of
\* primitives is registered and a binary array is on the stack above the
\* class
ArraysReadInsideClass ==
  /\ Len(objectStack) = 2
  /\ heap[objectStack[1]].rank = 0
  /\ heap[objectStack[1]].memberValues = <<>>
  /\ heap[objectStack[2]].rank # 0
  /\ \E i \in 1..Len(objects) : objects[i].v.k = "array"

\* composites o and p carry the same memberNames, memberTypes and
\* additionalInfos
SameDescriptor(o, p) ==
  /\ o.memberNames = p.memberNames
  /\ o.memberTypes = p.memberTypes
  /\ o.additionalInfos = p.additionalInfos

\* the next step reads a ClassWithId whose metadataId names a registered
\* composite other than objectId
AtClassWithId ==
  /\ AtRecord
  /\ Record = 1
  /\ read32(AfterTag).v # read32(AfterTag + 32).v
  /\ Lookup(objects, read32(AfterTag + 32).v).k = "object"

\* the step made the composite at the end of heap' as an instance of the
\* composite at heap position m, registered under objectId
InstanceOf(m, objectId, metadataId) ==
  /\ Len(heap') = Len(heap) + 1
  /\ heap'[Len(heap')].memberValues = <<>>
  /\ heap'[Len(heap')].objectId = objectId
  /\ SameDescriptor(heap'[Len(heap')], heap[m])
  /\ Lookup(objects', objectId) = Obj(Len(heap'))
  /\ Lookup(objects', metadataId) = Obj(m)

\* C19: a ClassWithId record with objectId other than metadataId makes an
\* instance with an empty memberValues of its own and the memberNames,
\* memberTypes and additionalInfos of the object under metadataId; no step
\* changes the objectId or the descriptor of a composite, and before
\* MessageEnd a step changes the memberValues of the stack tip only, so
\* filling one instance changes neither the object under metadataId nor
\* another instance.
InstancesIndependent ==
  [][/\ \A a \in 1..Len(heap) :
          /\ heap'[a].objectId = heap[a].objectId
          /\ SameDescriptor(heap'[a], heap[a])
          /\ (a # Tip /\ ~(AtRecord /\ Record = 11))
               => heap'[a].memberValues = heap[a].memberValues
     /\ (AtClassWithId /\ pc' = "loop")
          => InstanceOf(Lookup(objects, read32(AfterTag + 32).v).n,
                        read32(AfterTag).v, read32(AfterTag + 32).v)]_vars

\* C19 witness: an instance made by ClassWithId has a member filled while
\* the class it was made from, registered under another id, has other
\* memberValues
InstanceFilled ==
  \E a \in 1..Len(heap) : \E b \in 1..Len(heap) :
    /\ a < b
    /\ heap[a].memberNames # <<>>
    /\ SameDescriptor(heap[a], heap[b])
    /\ heap[a].objectId # heap[b].objectId
    /\ Lookup(objects, heap[a].objectId) = Obj(a)
    /\ Lookup(objects, heap[b].objectId) = Obj(b)
    /\ heap[b].memberValues # <<>>
    /\ heap[a].memberValues # heap[b].memberValues

\* the sum of the entries of lengths, from the last entry down
RECURSIVE SumOfLengths(_, _)
SumOfLengths(lengths, n) ==
  IF n = 0 THEN 0 ELSE SumOfLengths(lengths, n - 1) + lengths[n]

\* memberTypes and additionalInfos of binary array o have sum(lengths)
\* entries and every memberTypes entry is itemType
HomogeneousArray(o) ==
  /\ Len(o.memberTypes) = SumOfLengths(o.lengths, Len(o.lengths))
  /\ Len(o.additionalInfos) = SumOfLengths(o.lengths, Len(o.lengths))
  /\ \A i \in 1..Len(o.memberTypes) : o.memberTypes[i] = o.itemType

\* lowerBounds of binary array o, read with this binaryArrayType, has rank
\* entries when the type is above 2 and none otherwise
BoundsOfType(o, type) ==
  /\ Len(o.lengths) = o.rank
  /\ Len(o.lowerBounds) = IF type > 2 THEN o.rank ELSE 0

\* C20: every BinaryArray registered in the object table has memberTypes
\* and additionalInfos of sum(lengths) entries, every memberTypes entry equal
\* to itemType, and lowerBounds of rank entries when binaryArrayType > 2 and
\* empty otherwise (binaryArrayType is the byte read by the step that
\* registers the array).
BinaryArraysWellFormed ==
  [][/\ \A i \in 1..Len(objects') :
          (objects'[i].v.k = "object" /\ heap'[objects'[i].v.n].rank # 0)
            => HomogeneousArray(heap'[objects'[i].v.n])
     /\ (AtRecord /\ Record = 7 /\ pc' = "loop")
          => (/\ Lookup(objects', read32(AfterTag).v) = Obj(Len(heap'))
              /\ HomogeneousArray(heap'[Len(heap')])
              /\ BoundsOfType(heap'[Len(heap')], read8(AfterTag + 32).v))]_vars

\* C20 witness: a registered binary array of rank 2 with lengths 2 and 3,
\* two lower bounds and five member slots
ArrayWithBoundsRegistered ==
  \E i \in 1..Len(objects) :
    /\ objects[i].v.k = "object"
    /\ heap[objects[i].v.n].rank = 2
    /\ heap[objects[i].v.n].lengths = <<2, 3>>
    /\ Len(heap[objects[i].v.n].lowerBounds) = 2
    /\ Len(heap[objects[i].v.n].memberTypes) = 5

\* C21: every MessageEnd record that the loop reaches ends deserialize with a
\* returned value, also when the fix-ups have made a composite reachable from
\* itself: the projection pass terminates.
MessageEndReturns ==
  [][(AtRecord /\ Record = 11) => pc' = "returned"]_vars

\* the cursors at which the next iteration begins a readLengthPrefixedString:
\* a primitive member of type code 5 or 18, or the string that follows the
\* id of a record of tag 4, 5, 6 or 12
StringStarts ==
  (IF AtPrimitive /\ NextCode \in {5, 18} THEN {bit} ELSE {})
    \cup (IF AtRecord
          THEN (IF Record \in {4, 5, 6, 12} THEN {PrefixAt} ELSE {})
          ELSE {})

\* C22: the bit cursor is a multiple of 8 at the top of every iteration of
\* the main loop (and where deserialize ends), and at the call of
\* readByteArray that follows a length prefix: the 7-bit and 1-bit reads of
\* the prefix come in pairs that make whole bytes.
CursorByteAligned ==
  /\ bit % 8 = 0
  /\ \A b \in StringStarts :
       /\ b % 8 = 0
       /\ PrefixLoop(b, 0, 0).bit % 8 = 0
       /\ PrefixLoop(b, 0, 0).bit = b + 8 * GroupsFrom(b, 1)

\* C22 witness: the loop goes on after a string of 257 chars, whose prefix
\* has two groups, was read for a member
LongStringRead ==
  /\ pc = "loop"
  /\ bit > 0
  /\ \E a \in 1..Len(heap) :
       \E i \in 1..Len(heap[a].memberValues) :
         /\ heap[a].memberValues[i].k = "string"
         /\ Len(heap[a].memberValues[i].s) = 257

====
